---- MODULE Spec2Model ----
(***************************************************************************)
(* Model of igs_data_downloader.py: the rover-header parser, the fetcher   *)
(* (download_file), the decompressor (decompress_gz_file) and the          *)
(* sequential workflow of main().  The local filesystem is a function      *)
(* from paths to file contents; a file's content is a sequence of chunks.  *)
(* A gzip archive is a sequence of data chunks followed by a trailer       *)
(* chunk "t"; "x" is a chunk that does not inflate (corrupt data).         *)
(***************************************************************************)
EXTENDS Integers, Sequences, FiniteSets, TLC

VARIABLES
    pc,                 \* position of main(): "start", "obs", ..., "done"; "unit" for the function-level specification
    rinex_obs_version,  \* args.rinex_obs_version, "2" or "3"
    rinex_rover_file,   \* the rover file on disk: [state, lines]
    output_dir_exists,  \* whether args.output_dir exists
    fs,                 \* the files of output_dir: path -> [exists, data]
    fs0,                \* fs as it was when the run started
    obs_datetime,       \* result of get_obs_date_from_rinex: None or a timestamp
    nav_dl_path_gz,     \* main's local nav_dl_path_gz
    nav_dl_path_final,  \* main's local nav_dl_path_final
    calls,              \* trace of download_file / decompress_gz_file calls of this run
    last,               \* full record of the most recent call
    summary,            \* what the final summary printed
    crashed             \* an exception escaped main()

vars == << pc, rinex_obs_version, rinex_rover_file, output_dir_exists, fs, fs0,
           obs_datetime, nav_dl_path_gz, nav_dl_path_final, calls, last,
           summary, crashed >>

----------------------------------------------------------------------------
(* Bounds *)

MaxLines == 1       \* header lines of the rover file
MaxData == 1        \* data chunks of a served archive
MaxLeftover == 1    \* files already present in output_dir when the run starts
MaxUnitCalls == 2   \* calls made in the function-level specification

----------------------------------------------------------------------------
(* Files and archives *)

Absent == [exists |-> FALSE, data |-> << >>]
File(d) == [exists |-> TRUE, data |-> d]

IsData(c) == c \notin {"t", "x"}

\* an archive with n data chunks and the given ending
Archive(n, ending) ==
    [i \in 1..n |-> "a"] \o
        (CASE ending = "trailer" -> << "t" >>
           [] ending = "corrupt" -> << "x" >>
           [] OTHER -> << >>)

Bodies == { Archive(n, e) : n \in 0..MaxData, e \in {"trailer", "corrupt", "truncated"} }

\* gzip.open + shutil.copyfileobj: inflate chunk after chunk, writing as it goes.
\* Result: whether the stream inflated to its end, and what was written.
RECURSIVE InflateFrom(_, _, _)
InflateFrom(s, i, out) ==
    IF i > Len(s)
    THEN [ok |-> (Len(s) = 0 \/ s[Len(s)] = "t"), out |-> out]
    ELSE IF s[i] = "x" THEN [ok |-> FALSE, out |-> out]
    ELSE IF s[i] = "t" THEN InflateFrom(s, i + 1, out)
    ELSE InflateFrom(s, i + 1, Append(out, s[i]))

Inflate(s) == InflateFrom(s, 1, << >>)

----------------------------------------------------------------------------
(* Paths built by main *)

obs_filename_gz(version) == IF version = "3" THEN "obs.crx.gz" ELSE "obs.d.Z"
obs_final_filename(version) == IF version = "3" THEN "obs.crx" ELSE "obs.d"

nav_filename_rnx_gz == "BRDM00DLR.rnx.gz"
nav_filename_rnx == "BRDM00DLR.rnx"
nav_filename_rnx_gz_gde == "BRDM00GDE.rnx.gz"
nav_filename_rnx_gde == "BRDM00GDE.rnx"

GzPaths == { "obs.crx.gz", "obs.d.Z", nav_filename_rnx_gz, nav_filename_rnx_gz_gde }
FinalPaths == { "obs.crx", "obs.d", nav_filename_rnx, nav_filename_rnx_gde }
Paths == GzPaths \cup FinalPaths

EndsWithCrxGz(p) == p = "obs.crx.gz"

----------------------------------------------------------------------------
(* get_obs_date_from_rinex *)

None == [ok |-> FALSE, line |-> 0]

LineKinds == { "other", "marker_nomatch", "marker_badvalue", "marker_ok" }

\* "TIME OF FIRST OBS" in line
HasMarker(l) == l # "other"
\* re.search of the six numeric fields succeeds
RegexMatches(l) == l \in { "marker_badvalue", "marker_ok" }
\* float() and datetime.datetime() accept the six fields
FieldsValid(l) == l = "marker_ok"

RECURSIVE ScanLines(_, _)
ScanLines(f, i) ==
    IF i > Len(f) THEN None
    ELSE IF HasMarker(f[i])
         THEN IF RegexMatches(f[i])
              THEN IF FieldsValid(f[i]) THEN [ok |-> TRUE, line |-> i]
                   ELSE None           \* ValueError, caught by except Exception
              ELSE None
         ELSE ScanLines(f, i + 1)

\* open() raising FileNotFoundError, or any other exception while reading
get_obs_date_from_rinex(f) ==
    IF f.state # "readable" THEN None
    ELSE ScanLines(f.lines, 1)

RoverLines == UNION { [1..n -> LineKinds] : n \in 0..MaxLines }
RoverFiles ==
    { [state |-> st, lines |-> << >>] : st \in {"missing", "unreadable"} }
    \cup { [state |-> "readable", lines |-> ls] : ls \in RoverLines }

----------------------------------------------------------------------------
(* download_file *)

FailKinds == { "http", "conn", "timeout", "request" }

\* What the request for a URL turns out to be: an error before the body
\* (HTTPError from raise_for_status, ConnectionError, Timeout, other
\* RequestException), an OSError from open(output_path, 'wb'), a
\* RequestException raised by iter_content after n chunks, an OSError raised
\* by f.write after n chunks, or the whole body.
Responses ==
    { [kind |-> k, body |-> << >>, n |-> 0] : k \in FailKinds \cup {"open_err"} }
    \cup { [kind |-> "ok", body |-> b, n |-> Len(b)] : b \in Bodies }
    \cup UNION { { [kind |-> "stream_err", body |-> b, n |-> j] : j \in 0..Len(b) } : b \in Bodies }
    \cup UNION { { [kind |-> "write_err", body |-> b, n |-> j] : j \in 0..(Len(b) - 1) } : b \in Bodies }

\* variant: the destination is opened before the request is made
download_file_open_first(f, output_path, resp) ==
    CASE resp.kind \in FailKinds ->
            [ret |-> "False", fs |-> [f EXCEPT ![output_path] = File(<< >>)]]
      [] resp.kind = "open_err" ->
            [ret |-> "raise", fs |-> f]
      [] resp.kind = "stream_err" ->
            [ret |-> "False",
             fs |-> [f EXCEPT ![output_path] = File(SubSeq(resp.body, 1, resp.n))]]
      [] resp.kind = "write_err" ->
            [ret |-> "raise",
             fs |-> [f EXCEPT ![output_path] = File(SubSeq(resp.body, 1, resp.n))]]
      [] OTHER ->
            [ret |-> "True", fs |-> [f EXCEPT ![output_path] = File(resp.body)]]

download_file(f, output_path, resp) ==
    CASE resp.kind \in FailKinds ->
            [ret |-> "False", fs |-> f]
      [] resp.kind = "open_err" ->
            [ret |-> "raise", fs |-> f]
      [] resp.kind = "stream_err" ->
            [ret |-> "False",
             fs |-> [f EXCEPT ![output_path] = File(SubSeq(resp.body, 1, resp.n))]]
      [] resp.kind = "write_err" ->
            [ret |-> "raise",
             fs |-> [f EXCEPT ![output_path] = File(SubSeq(resp.body, 1, resp.n))]]
      [] OTHER ->
            [ret |-> "True", fs |-> [f EXCEPT ![output_path] = File(resp.body)]]

----------------------------------------------------------------------------
(* decompress_gz_file *)

\* what the filesystem does to the call: nothing special, open(output, 'wb')
\* raising OSError, or os.remove raising OSError
DecompressEnvs == { "ok", "open_out_err", "remove_err" }

\* variant: os.remove runs whether or not the inflate succeeded
decompress_gz_file_always_remove(f, gz_file_path, output_file_path, env) ==
    IF ~f[gz_file_path].exists \/ env = "open_out_err"
    THEN [ret |-> "False", fs |-> f]
    ELSE LET r == Inflate(f[gz_file_path].data)
             written == [f EXCEPT ![output_file_path] = File(r.out)]
         IN  [ret |-> IF r.ok /\ env # "remove_err" THEN "True" ELSE "False",
              fs |-> [written EXCEPT ![gz_file_path] = Absent]]

decompress_gz_file(f, gz_file_path, output_file_path, env) ==
    IF ~f[gz_file_path].exists \/ env = "open_out_err"
    THEN [ret |-> "False", fs |-> f]
    ELSE LET r == Inflate(f[gz_file_path].data)
             written == [f EXCEPT ![output_file_path] = File(r.out)]
         IN  IF ~r.ok \/ env = "remove_err"
             THEN [ret |-> "False", fs |-> written]
             ELSE [ret |-> "True", fs |-> [written EXCEPT ![gz_file_path] = Absent]]

----------------------------------------------------------------------------
(* main: decisions *)

\* variant: the check of line 105 is missing
AfterParse_always(dt) == "obs"

\* lines 105-106
AfterParse(dt) == IF ~dt.ok THEN "done" ELSE "obs"

\* variant: line 149 does not look at the version
AfterObsDownload_anyversion(ok, version, gzname) == IF ok THEN "obs_dec" ELSE "nav"

\* lines 148-156
AfterObsDownload(ok, version, gzname) ==
    IF ok /\ version = "3" /\ EndsWithCrxGz(gzname) THEN "obs_dec" ELSE "nav"

\* lines 175, 183-184
AfterNavDownload(ok) == IF ~ok THEN "gde" ELSE "nav_dec"

\* variant: line 180 is outside the if of line 179
AfterNavFallback_always(ok) == "gde_dec"

\* lines 179-182
AfterNavFallback(ok) == IF ok THEN "gde_dec" ELSE "summary"

\* variant: the summary names the path without os.path.exists
SummaryEntry_always(f, path) == path

\* variant: the condition of the summary is inverted
SummaryEntry_inverted(f, path) == IF f[path].exists THEN "manual" ELSE path

\* lines 190-191
SummaryEntry(f, path) == IF f[path].exists THEN path ELSE "manual"

----------------------------------------------------------------------------
(* Call records *)

NoCall == [fn |-> "none", path |-> "", out |-> "", resp |-> [kind |-> "", body |-> << >>, n |-> 0],
           pre |-> [p \in Paths |-> Absent], post |-> [p \in Paths |-> Absent], ret |-> ""]

DownloadCall(path, resp, r) ==
    [fn |-> "download", path |-> path, out |-> "", resp |-> resp,
     pre |-> fs, post |-> r.fs, ret |-> r.ret]

DecompressCall(gz, out, env, r) ==
    [fn |-> "decompress", path |-> gz, out |-> out,
     resp |-> [kind |-> env, body |-> << >>, n |-> 0],
     pre |-> fs, post |-> r.fs, ret |-> r.ret]

Brief(c) == [fn |-> c.fn, path |-> c.path, out |-> c.out, ret |-> c.ret]

NoSummary == [printed |-> FALSE, obs |-> "", nav |-> ""]

----------------------------------------------------------------------------
(* main: steps *)

\* a download_file call made by main at position pc; an exception ends the run
Download(path, resp, onTrue, onFalse) ==
    LET r == download_file(fs, path, resp)
    IN  /\ fs' = r.fs
        /\ last' = DownloadCall(path, resp, r)
        /\ calls' = Append(calls, Brief(last'))
        /\ IF r.ret = "raise"
           THEN pc' = "done" /\ crashed' = TRUE
           ELSE pc' = (IF r.ret = "True" THEN onTrue ELSE onFalse) /\ crashed' = crashed

Decompress(gz, out, env, next) ==
    LET r == decompress_gz_file(fs, gz, out, env)
    IN  /\ fs' = r.fs
        /\ last' = DecompressCall(gz, out, env, r)
        /\ calls' = Append(calls, Brief(last'))
        /\ pc' = next
        /\ crashed' = crashed

\* lines 98-106
Start ==
    /\ pc = "start"
    /\ output_dir_exists' = TRUE
    /\ obs_datetime' = get_obs_date_from_rinex(rinex_rover_file)
    /\ pc' = AfterParse(obs_datetime')
    /\ UNCHANGED << rinex_obs_version, rinex_rover_file, fs, fs0, nav_dl_path_gz,
                    nav_dl_path_final, calls, last, summary, crashed >>

\* lines 145-148, 151-156
ObsDownload ==
    /\ pc = "obs"
    /\ \E resp \in Responses :
          Download(obs_filename_gz(rinex_obs_version), resp,
                   AfterObsDownload(TRUE, rinex_obs_version,
                                    obs_filename_gz(rinex_obs_version)),
                   AfterObsDownload(FALSE, rinex_obs_version,
                                    obs_filename_gz(rinex_obs_version)))
    /\ UNCHANGED << rinex_obs_version, rinex_rover_file, output_dir_exists, fs0,
                    obs_datetime, nav_dl_path_gz, nav_dl_path_final, summary >>

\* line 150
ObsDecompress ==
    /\ pc = "obs_dec"
    /\ \E env \in DecompressEnvs :
          Decompress(obs_filename_gz(rinex_obs_version),
                     obs_final_filename(rinex_obs_version), env, "nav")
    /\ UNCHANGED << rinex_obs_version, rinex_rover_file, output_dir_exists, fs0,
                    obs_datetime, nav_dl_path_gz, nav_dl_path_final, summary >>

\* lines 172-175
NavDownload ==
    /\ pc = "nav"
    /\ nav_dl_path_gz' = nav_filename_rnx_gz
    /\ nav_dl_path_final' = nav_filename_rnx
    /\ \E resp \in Responses :
          Download(nav_dl_path_gz', resp, AfterNavDownload(TRUE), AfterNavDownload(FALSE))
    /\ UNCHANGED << rinex_obs_version, rinex_rover_file, output_dir_exists, fs0,
                    obs_datetime, summary >>

\* line 184
NavDecompress ==
    /\ pc = "nav_dec"
    /\ \E env \in DecompressEnvs :
          Decompress(nav_dl_path_gz, nav_dl_path_final, env, "summary")
    /\ UNCHANGED << rinex_obs_version, rinex_rover_file, output_dir_exists, fs0,
                    obs_datetime, nav_dl_path_gz, nav_dl_path_final, summary >>

\* lines 176-179, 181-182
NavFallbackDownload ==
    /\ pc = "gde"
    /\ nav_dl_path_gz' = nav_filename_rnx_gz_gde
    /\ nav_dl_path_final' = nav_filename_rnx_gde
    /\ \E resp \in Responses :
          Download(nav_dl_path_gz', resp, AfterNavFallback(TRUE), AfterNavFallback(FALSE))
    /\ UNCHANGED << rinex_obs_version, rinex_rover_file, output_dir_exists, fs0,
                    obs_datetime, summary >>

\* line 180
NavFallbackDecompress ==
    /\ pc = "gde_dec"
    /\ \E env \in DecompressEnvs :
          Decompress(nav_dl_path_gz, nav_dl_path_final, env, "summary")
    /\ UNCHANGED << rinex_obs_version, rinex_rover_file, output_dir_exists, fs0,
                    obs_datetime, nav_dl_path_gz, nav_dl_path_final, summary >>

\* lines 186-191
Summary ==
    /\ pc = "summary"
    /\ summary' = [printed |-> TRUE,
                   obs |-> SummaryEntry(fs, obs_final_filename(rinex_obs_version)),
                   nav |-> SummaryEntry(fs, nav_dl_path_final)]
    /\ pc' = "done"
    /\ UNCHANGED << rinex_obs_version, rinex_rover_file, output_dir_exists, fs, fs0,
                    obs_datetime, nav_dl_path_gz, nav_dl_path_final, calls, last,
                    crashed >>

----------------------------------------------------------------------------
(* The run of main *)

LeftoverContent(p) == IF p \in GzPaths THEN File(<< "o", "t" >>) ELSE File(<< "o" >>)

Leftovers == { S \in SUBSET Paths : Cardinality(S) <= MaxLeftover }

Init ==
    /\ pc = "start"
    /\ rinex_obs_version \in { "2", "3" }
    /\ rinex_rover_file \in RoverFiles
    /\ output_dir_exists \in BOOLEAN
    /\ \E S \in Leftovers :
          /\ (~output_dir_exists => S = {})
          /\ fs = [p \in Paths |-> IF p \in S THEN LeftoverContent(p) ELSE Absent]
    /\ fs0 = fs
    /\ obs_datetime = None
    /\ nav_dl_path_gz = ""
    /\ nav_dl_path_final = ""
    /\ calls = << >>
    /\ last = NoCall
    /\ summary = NoSummary
    /\ crashed = FALSE

Next ==
    \/ Start
    \/ ObsDownload
    \/ ObsDecompress
    \/ NavDownload
    \/ NavDecompress
    \/ NavFallbackDownload
    \/ NavFallbackDecompress
    \/ Summary

Spec == Init /\ [][Next]_vars

----------------------------------------------------------------------------
(* The two functions on their own, applied to any state of the files *)

UnitGz == "obs.crx.gz"
UnitOut == "obs.crx"

UnitDownload ==
    /\ pc = "unit"
    /\ Len(calls) < MaxUnitCalls
    /\ \E resp \in Responses :
          LET r == download_file(fs, UnitGz, resp)
          IN  /\ fs' = r.fs
              /\ last' = DownloadCall(UnitGz, resp, r)
              /\ calls' = Append(calls, Brief(last'))
    /\ UNCHANGED << pc, rinex_obs_version, rinex_rover_file, output_dir_exists, fs0,
                    obs_datetime, nav_dl_path_gz, nav_dl_path_final, summary, crashed >>

UnitDecompress ==
    /\ pc = "unit"
    /\ Len(calls) < MaxUnitCalls
    /\ \E env \in DecompressEnvs :
          LET r == decompress_gz_file(fs, UnitGz, UnitOut, env)
          IN  /\ fs' = r.fs
              /\ last' = DecompressCall(UnitGz, UnitOut, env, r)
              /\ calls' = Append(calls, Brief(last'))
    /\ UNCHANGED << pc, rinex_obs_version, rinex_rover_file, output_dir_exists, fs0,
                    obs_datetime, nav_dl_path_gz, nav_dl_path_final, summary, crashed >>

InitUnit ==
    /\ pc = "unit"
    /\ rinex_obs_version = "3"
    /\ rinex_rover_file = [state |-> "missing", lines |-> << >>]
    /\ output_dir_exists = TRUE
    /\ \E g \in {Absent} \cup { File(b) : b \in Bodies },
          o \in { Absent, File(<< "o" >>) } :
          fs = [p \in Paths |-> IF p = UnitGz THEN g ELSE IF p = UnitOut THEN o ELSE Absent]
    /\ fs0 = fs
    /\ obs_datetime = None
    /\ nav_dl_path_gz = ""
    /\ nav_dl_path_final = ""
    /\ calls = << >>
    /\ last = NoCall
    /\ summary = NoSummary
    /\ crashed = FALSE

NextUnit == UnitDownload \/ UnitDecompress

SpecUnit == InitUnit /\ [][NextUnit]_vars

----------------------------------------------------------------------------
(* Properties *)

ObsGzPaths == { "obs.crx.gz", "obs.d.Z" }

Downloads(path) == { i \in 1..Len(calls) : calls[i].fn = "download" /\ calls[i].path = path }
Decompresses(path) == { i \in 1..Len(calls) : calls[i].fn = "decompress" /\ calls[i].path = path }
DecompressedTo(out) == { i \in 1..Len(calls) : calls[i].fn = "decompress" /\ calls[i].out = out }

\* C1: when get_obs_date_from_rinex returns no timestamp the run is over and
\* no download, no decompression and no summary has happened.
C1_ParserFailureEndsRun ==
    (pc # "start" /\ pc # "unit" /\ ~obs_datetime.ok) =>
        /\ pc = "done"
        /\ calls = << >>
        /\ ~summary.printed

C1_Witness ==
    /\ pc = "done"
    /\ ~obs_datetime.ok
    /\ rinex_rover_file.state = "readable"
    /\ Len(rinex_rover_file.lines) >= 1
    /\ rinex_rover_file.lines[1] \in { "marker_nomatch", "marker_badvalue" }

\* C2 (as claimed): a finished run that got past the parser fetched the
\* observation archive once and the DLR navigation archive once, and fetched
\* the GDE archive once exactly when the DLR fetch returned failure, after it.
C2_NavFetchCounts ==
    (pc = "done" /\ obs_datetime.ok) =>
        /\ Cardinality(UNION { Downloads(p) : p \in ObsGzPaths }) = 1
        /\ Cardinality(Downloads(nav_filename_rnx_gz)) = 1
        /\ Cardinality(Downloads(nav_filename_rnx_gz_gde)) <= 1
        /\ (Downloads(nav_filename_rnx_gz_gde) # {} <=>
               \E i \in Downloads(nav_filename_rnx_gz) : calls[i].ret = "False")
        /\ \A i \in Downloads(nav_filename_rnx_gz), j \in Downloads(nav_filename_rnx_gz_gde) : i < j

\* C3 (as claimed): with version "2" the observation archive is never
\* decompressed and the summary's base-observation entry is the manual
\* message, whatever the output directory held.
C3_Original ==
    rinex_obs_version = "2" =>
        /\ \A p \in ObsGzPaths : Decompresses(p) = {}
        /\ summary.printed => summary.obs = "manual"

\* C3 (amended): with version "2" the observation archive is never
\* decompressed; the summary's base-observation entry is the manual message
\* whatever the fetch did, unless a file was already at the decompressed
\* observation path when the run started, and then the entry names that path.
C3_Version2NoDecompress ==
    rinex_obs_version = "2" =>
        /\ \A p \in ObsGzPaths : Decompresses(p) = {}
        /\ DecompressedTo(obs_final_filename("2")) = {}
        /\ (summary.printed /\ ~fs0[obs_final_filename("2")].exists) => summary.obs = "manual"
        /\ (summary.printed /\ fs0[obs_final_filename("2")].exists) =>
               summary.obs = obs_final_filename("2")

C3_Witness ==
    /\ rinex_obs_version = "2"
    /\ summary.printed
    /\ summary.obs = "manual"
    /\ \E i \in Downloads(obs_filename_gz("2")) : calls[i].ret = "True"

\* C4 (as claimed): a finished run that got past the parser has printed the
\* summary, whatever the fetches and decompressions did.
C4_SummaryReached ==
    (pc = "done" /\ obs_datetime.ok) => summary.printed

\* C5: each of the two summary entries is a path exactly when that path
\* exists on disk, and the manual message otherwise.
C5_SummaryPathsExist ==
    summary.printed =>
        /\ IF fs[obs_final_filename(rinex_obs_version)].exists
           THEN summary.obs = obs_final_filename(rinex_obs_version)
           ELSE summary.obs = "manual"
        /\ IF fs[nav_dl_path_final].exists
           THEN summary.nav = nav_dl_path_final
           ELSE summary.nav = "manual"
        /\ summary.obs \in { obs_final_filename(rinex_obs_version), "manual" }
        /\ summary.nav \in { nav_filename_rnx, nav_filename_rnx_gde, "manual" }
        /\ \A e \in { summary.obs, summary.nav } : e # "manual" => fs[e].exists

C5_Witness ==
    /\ summary.printed
    /\ summary.obs = "obs.crx"
    /\ summary.nav = "manual"
    /\ DecompressedTo("obs.crx") # {}

\* C6: decompress_gz_file never raises; returning True, the output holds the
\* whole inflated content and the compressed file is gone; returning False, the
\* compressed file is as it was before the call.
C6_DecompressRemovesOnlyOnSuccess ==
    last.fn = "decompress" =>
        /\ last.ret \in { "True", "False" }
        /\ last.ret = "True" =>
              /\ last.pre[last.path].exists
              /\ last.post[last.out] = File(SelectSeq(last.pre[last.path].data, IsData))
              /\ ~last.post[last.path].exists
        /\ last.ret = "False" => last.post[last.path] = last.pre[last.path]

C6_Witness ==
    /\ last.fn = "decompress"
    /\ last.ret = "False"
    /\ last.pre[last.path].exists
    /\ last.post[last.out] # last.pre[last.out]
    /\ last.post[last.path].exists

\* C7 (as claimed): download_file never raises, and returns True only when the
\* whole body is in the destination.
C7_DownloadNeverRaises ==
    last.fn = "download" =>
        /\ last.ret \in { "True", "False" }
        /\ last.ret = "True" => last.post[last.path] = File(last.resp.body)

\* C8 (as claimed): when download_file returns False the destination is as it
\* was before the call.
C8_Original ==
    (last.fn = "download" /\ last.ret = "False") => last.post[last.path] = last.pre[last.path]

\* C8 (amended): when download_file returns False for an error raised before
\* the body is streamed (HTTP status, connection, timeout, other request
\* error) no file has changed; when it returns False after the destination
\* was opened, the destination exists and holds the chunks streamed so far.
C8_FailureBeforeBodyLeavesDestination ==
    (last.fn = "download" /\ last.ret = "False") =>
        /\ last.resp.kind \in FailKinds => last.post = last.pre
        /\ last.resp.kind \notin FailKinds =>
              last.post[last.path] = File(SubSeq(last.resp.body, 1, last.resp.n))
        /\ \A p \in Paths \ { last.path } : last.post[p] = last.pre[p]

C8_Witness ==
    /\ last.fn = "download"
    /\ last.ret = "False"
    /\ last.resp.kind = "http"
    /\ last.pre[last.path].exists
    /\ last.post[last.path] = last.pre[last.path]

\* C9: every decompress_gz_file call of a run comes right after a
\* download_file call for the same archive that returned True; no archive is
\* decompressed twice; the DLR archive is not decompressed once the fallback
\* was fetched, nor the GDE archive unless it was.
C9_DecompressOnlyAfterFetch ==
    /\ \A i \in 1..Len(calls) :
          calls[i].fn = "decompress" =>
              /\ i > 1
              /\ calls[i - 1].fn = "download"
              /\ calls[i - 1].path = calls[i].path
              /\ calls[i - 1].ret = "True"
    /\ \A p \in Paths : Cardinality(Decompresses(p)) <= 1
    /\ Downloads(nav_filename_rnx_gz_gde) # {} => Decompresses(nav_filename_rnx_gz) = {}
    /\ (\E i \in Downloads(nav_filename_rnx_gz) : calls[i].ret = "True") =>
          Decompresses(nav_filename_rnx_gz_gde) = {}

C9_Witness ==
    /\ pc = "done"
    /\ summary.printed
    /\ Decompresses(nav_filename_rnx_gz_gde) # {}
    /\ Decompresses("obs.crx.gz") = {}
    /\ Downloads("obs.crx.gz") # {}

\* C10 (as claimed): a path shown in the summary is the output of a
\* decompress_gz_file call of this run that returned True.
C10_Original ==
    summary.printed =>
        \A e \in { summary.obs, summary.nav } :
            e # "manual" => \E i \in DecompressedTo(e) : calls[i].ret = "True"

\* C10 (amended): a path shown in the summary exists on disk; it was either
\* already there when the run started or is the output file of a
\* decompress_gz_file call of this run, which returned True or returned False
\* after opening its output.  With no such file and no such call the entry is
\* the manual message, and after a call that returned True the entry is the path.
C10_ShownPathLeftoverOrDecompressed ==
    summary.printed =>
        /\ \A e \in { summary.obs, summary.nav } :
              e # "manual" => (fs0[e].exists \/ DecompressedTo(e) # {})
        /\ (\E i \in DecompressedTo(obs_final_filename(rinex_obs_version)) : calls[i].ret = "True")
              => summary.obs = obs_final_filename(rinex_obs_version)
        /\ (\E i \in DecompressedTo(nav_dl_path_final) : calls[i].ret = "True")
              => summary.nav = nav_dl_path_final

C10_Witness ==
    /\ summary.printed
    /\ summary.nav = nav_filename_rnx
    /\ ~fs0[nav_filename_rnx].exists
    /\ \E i \in DecompressedTo(nav_filename_rnx) : calls[i].ret = "False"

====
